---- MODULE Spec2Model ----
(***************************************************************************)
(* Document Time Tracker: the background poller (trackActiveTab), the      *)
(* retention sweep (cleanupOldData), the dashboard's deleteDocument and    *)
(* the IndexedDB store they share (IndexedDBManager).                      *)
(*                                                                         *)
(* The store is modelled as IndexedDB behaves: every operation runs in one *)
(* readwrite transaction whose scope contains the "sessions" store, so the *)
(* transactions are serialised (`running`); a transaction works on its own *)
(* view (txDocuments, txSessions, txNextId) which replaces the committed   *)
(* tables when it completes and is dropped when it aborts.                 *)
(***************************************************************************)
EXTENDS Integers, Sequences, FiniteSets, TLC

-----------------------------------------------------------------------------
(* Program constants *)

DATA_RETENTION_DAYS == 60

MIN_RECORD_SECONDS == 10

TickDurationMs == 1000

\* alarms.create("cleanup", { periodInMinutes: 60 })
CleanupPeriodInMinutes == 60

\* the minutes that pass in one step of the cleanup alarm's countdown
ElapseMinutes == 30

(* Bounds of the exploration *)

\* at most this many session rows are ever inserted
MaxSessions == 2

\* days explored after the day on which the first day's sessions reach the
\* retention horizon
MaxLateDays == 0

\* a tab's accumulator is explored up to this many seconds
MaxSeconds == 11

\* the store that getTimeBreakdown reads holds at most this many rows
MaxRows == 3

\* getWeekKey is applied to the dates of this many days after the first
MaxQueryDays == 20

-----------------------------------------------------------------------------
(* Calendar and clock: new Date(), toISOString().split("T")[0], setDate     *)

\* <<year, month, days in the month>>, from 2023-12-01 (day number 0)
MonthTable ==
    << <<2023, 12, 31>>, <<2024, 1, 31>>, <<2024, 2, 29>>,
       <<2024, 3, 31>>, <<2024, 4, 30>>, <<2024, 5, 31>> >>

RECURSIVE DateFrom(_, _)
DateFrom(n, i) ==
    IF n < MonthTable[i][3]
    THEN <<MonthTable[i][1], MonthTable[i][2], n + 1>>
    ELSE DateFrom(n - MonthTable[i][3], i + 1)

\* the YYYY-MM-DD string of day number n, as its three zero-padded fields
ISODate(n) == DateFrom(n, 1)

\* IndexedDB's order on two YYYY-MM-DD string keys: character by character,
\* which on zero-padded fields of equal width is field by field
KeyLE(a, b) ==
    \/ a[1] < b[1]
    \/ a[1] = b[1] /\ a[2] < b[2]
    \/ a[1] = b[1] /\ a[2] = b[2] /\ a[3] <= b[3]

\* (mutant) upperBound(cutoffDate, true): the cutoff date itself excluded
InUpperBoundOpen(key, cutoffDate) == KeyLE(key, cutoffDate) /\ key # cutoffDate

\* IDBKeyRange.upperBound(cutoffDate): open defaults to false
InUpperBound(key, cutoffDate) == KeyLE(key, cutoffDate)

\* the first explored day: the first whose cutoff is inside MonthTable
StartDay == DATA_RETENTION_DAYS

\* the explored days: the first, and the days from the day on which the
\* first day's sessions reach the retention horizon
Days ==
    {StartDay} \cup (StartDay + DATA_RETENTION_DAYS ..
                        StartDay + DATA_RETENTION_DAYS + MaxLateDays)

\* the same with the eve of that day
DaysWithEve ==
    {StartDay, StartDay + DATA_RETENTION_DAYS - 1,
     StartDay + DATA_RETENTION_DAYS}

\* an instant is a number of hours since 2023-12-01T00:00Z
HoursPerDay == 24

HoursOfDay == 0 .. HoursPerDay - 1

\* the time zones the browser may run in: the hours its local time is ahead
\* of UTC in standard and in summer time, and the day number on which summer
\* time starts (2024-03-10 in New York; it lasts beyond MonthTable)
Zones ==
    { [name |-> "UTC", std |-> 0, dst |-> 0, from |-> 0],
      [name |-> "America/New_York", std |-> -5, dst |-> -4, from |-> 100],
      [name |-> "Asia/Tokyo", std |-> 9, dst |-> 9, from |-> 0] }

\* the zone's offset on a day (the explored instants are hours away from the
\* night of the change, so the day decides)
UtcOffset(zone, day) == IF day >= zone.from THEN zone.dst ELSE zone.std

\* the local wall-clock hours of an instant
LocalTime(zone, instant) ==
    instant + UtcOffset(zone, instant \div HoursPerDay)

\* date.setDate(date.getDate() - n): the local calendar day moves back n
\* days and the local time of day stays; the result as an instant
SetDateBack(zone, instant, n) ==
    LET wall == LocalTime(zone, instant)
        day == (wall \div HoursPerDay) - n
    IN  day * HoursPerDay + (wall % HoursPerDay) - UtcOffset(zone, day)

\* date.getDay(): the local day of the week, Sunday 0 (2023-12-01 is a Friday)
GetDay(zone, instant) ==
    ((LocalTime(zone, instant) \div HoursPerDay) + 5) % 7

\* toISOString().split("T")[0]: the UTC date of an instant
ISOString(instant) == ISODate(instant \div HoursPerDay)

\* the day number a YYYY-MM-DD string denotes
DayOf(date) ==
    CHOOSE n \in 0 .. StartDay + DATA_RETENTION_DAYS + DATA_RETENTION_DAYS :
        ISODate(n) = date

\* new Date(dateString): a date-only string is read as midnight UTC
ParseDate(dateString) == DayOf(dateString) * HoursPerDay

-----------------------------------------------------------------------------
(* Tabs and URLs *)

NoTab == 0

\* a URL as new URL() splits it; hostname "" and no path for the rest
Url(scheme, hostname, pathname) ==
    [scheme |-> scheme, hostname |-> hostname, pathname |-> pathname]

\* a tab.url that new URL() cannot parse: "", which a tab reports while it
\* has not committed its first navigation
Malformed == Url("", "", <<>>)

\* the tabs the browser can report: id, url, title
TabUrl(t) ==
    CASE t = 1 -> Url("https", "docs.google.com", <<"document", "d", "abc", "edit">>)
      [] t = 2 -> Url("https", "example.com", <<"page">>)
      [] t = 3 -> Url("chrome", "extensions", <<>>)
      [] t = 4 -> Malformed
      [] t = 6 -> Url("https", "example.com", <<>>)
      [] OTHER -> Url("https", "example.com", <<"page">>)

TabTitle(t) ==
    CASE t = 1 -> "Doc A"
      [] t = 2 -> "Example"
      [] t = 3 -> "Extensions"
      [] t = 4 -> "New Tab"
      [] t = 6 -> "Example Domain"
      [] OTHER -> ""

Tabs == 1 .. 6

\* the tab object of the tab with id t
TabOf(t) == [id |-> t, url |-> TabUrl(t), title |-> TabTitle(t)]

\* the hostnames and the pathnames of the URLs the resolver is applied to
Hostnames ==
    { "docs.google.com", "www.office.com", "outlook.office365.com",
      "claude.ai", "chat.openai.com", "chatgpt.com", "example.com",
      "docs.google.com.claude.ai" }

Pathnames ==
    { <<>>, <<"page">>,
      <<"document", "d", "abc", "edit">>,
      <<"document", "d", "XYZ123", "edit">>,
      <<"document", "d">>,
      <<"spreadsheets", "d", "s1", "edit">>,
      <<"spreadsheets", "d", "s1", "document", "d", "abc">>,
      <<"chat", "conv1">>,
      <<"chat", "conv1", "document", "d", "abc">>,
      <<"c", "conv1">>,
      <<"launch", "word">> }

Urls ==
    { Url("https", h, p) : h \in Hostnames, p \in Pathnames } \cup {Malformed}

\* String.prototype.includes on the hostnames that occur
Includes(hostname, needle) ==
    <<hostname, needle>> \in
        { <<"docs.google.com", "docs.google.com">>,
          <<"www.office.com", "office.com">>,
          <<"outlook.office365.com", "office365.com">>,
          <<"claude.ai", "claude.ai">>,
          <<"chat.openai.com", "chat.openai.com">>,
          <<"chatgpt.com", "chatgpt.com">>,
          <<"docs.google.com.claude.ai", "docs.google.com">>,
          <<"docs.google.com.claude.ai", "claude.ai">> }

\* pathname.match(/\/<lit[1]>\/<lit[2]>\/([a-zA-Z0-9-_]+)/): the id after the
\* first occurrence of the literal segments, "" when there is none
\* (every segment that occurs consists of id characters only)
MatchAfter(pathname, lit) ==
    LET hits == { i \in 1 .. Len(pathname) - Len(lit) :
                    \A j \in 1 .. Len(lit) : pathname[i + j - 1] = lit[j] }
    IN  IF hits = {} THEN ""
        ELSE pathname[(CHOOSE i \in hits : \A h \in hits : i <= h) + Len(lit)]

\* the segments that occur and are made of [a-z] only
IsLower(seg) ==
    seg \in {"document", "d", "abc", "edit", "preview", "page", "chat", "c",
             "spreadsheets", "launch", "word"}

\* the longest prefix of a segment that is made of [a-z0-9]: the segments
\* that occur are made of [a-z0-9] throughout or start with a capital
LowerAlnumPrefix(seg) ==
    IF IsLower(seg) \/ seg \in {"s1", "conv1"} THEN seg ELSE ""

\* pathname.match(/\/([a-z]+)\/([a-z0-9]+)/): the index of the first segment
\* made of [a-z] that is followed by a segment starting in [a-z0-9], 0 if none
MatchLowerPair(pathname) ==
    LET hits == { i \in 1 .. Len(pathname) - 1 :
                    IsLower(pathname[i]) /\ LowerAlnumPrefix(pathname[i + 1]) # "" }
    IN  IF hits = {} THEN 0 ELSE CHOOSE i \in hits : \A h \in hits : i <= h

\* url.pathname.includes("/spreadsheets")
IncludesSpreadsheets(pathname) ==
    \E i \in 1 .. Len(pathname) : pathname[i] = "spreadsheets"

\* what generateDocKey yields when new URL(tab.url) throws
Throws == <<"TypeError">>

\* (mutant) the AI-chat rules are tried before the document-editor rules
generateDocKeyChatFirst(tab) ==
    LET url == tab.url
        gdoc == MatchAfter(url.pathname, <<"document", "d">>)
        gsheet == MatchAfter(url.pathname, <<"spreadsheets", "d">>)
        claude == MatchAfter(url.pathname, <<"chat">>)
        chatgpt == MatchAfter(url.pathname, <<"c">>)
        office == MatchLowerPair(url.pathname)
    IN  IF url = Malformed THEN Throws
        ELSE IF Includes(url.hostname, "claude.ai") /\ claude # ""
            THEN <<"claude", claude>>
        ELSE IF /\ \/ Includes(url.hostname, "chat.openai.com")
                   \/ Includes(url.hostname, "chatgpt.com")
                /\ chatgpt # ""
            THEN <<"chatgpt", chatgpt>>
        ELSE IF Includes(url.hostname, "docs.google.com") /\ gdoc # ""
            THEN <<"gdoc", gdoc>>
        ELSE IF /\ Includes(url.hostname, "docs.google.com")
                /\ IncludesSpreadsheets(url.pathname)
                /\ gsheet # ""
            THEN <<"gsheet", gsheet>>
        ELSE IF /\ \/ Includes(url.hostname, "office.com")
                   \/ Includes(url.hostname, "office365.com")
                /\ office # 0
            THEN <<"office", url.pathname[office],
                   LowerAlnumPrefix(url.pathname[office + 1])>>
        ELSE <<"domain", url.hostname>>

\* generateDocKey(tab): the key as the tuple of the parts that the template
\* string joins with "_"
generateDocKey(tab) ==
    LET url == tab.url
        gdoc == MatchAfter(url.pathname, <<"document", "d">>)
        gsheet == MatchAfter(url.pathname, <<"spreadsheets", "d">>)
        claude == MatchAfter(url.pathname, <<"chat">>)
        chatgpt == MatchAfter(url.pathname, <<"c">>)
        office == MatchLowerPair(url.pathname)
    IN  IF url = Malformed THEN Throws
        ELSE IF Includes(url.hostname, "docs.google.com") /\ gdoc # ""
            THEN <<"gdoc", gdoc>>
        ELSE IF /\ Includes(url.hostname, "docs.google.com")
                /\ IncludesSpreadsheets(url.pathname)
                /\ gsheet # ""
            THEN <<"gsheet", gsheet>>
        ELSE IF /\ \/ Includes(url.hostname, "office.com")
                   \/ Includes(url.hostname, "office365.com")
                /\ office # 0
            THEN <<"office", url.pathname[office],
                   LowerAlnumPrefix(url.pathname[office + 1])>>
        ELSE IF Includes(url.hostname, "claude.ai") /\ claude # ""
            THEN <<"claude", claude>>
        ELSE IF /\ \/ Includes(url.hostname, "chat.openai.com")
                   \/ Includes(url.hostname, "chatgpt.com")
                /\ chatgpt # ""
            THEN <<"chatgpt", chatgpt>>
        ELSE <<"domain", url.hostname>>

\* the popup's generateDocKey(tab): the document-editor rules, then the
\* domain key; it has no AI-chat rule
generateDocKeyPopup(tab) ==
    LET url == tab.url
        gdoc == MatchAfter(url.pathname, <<"document", "d">>)
        gsheet == MatchAfter(url.pathname, <<"spreadsheets", "d">>)
        office == MatchLowerPair(url.pathname)
    IN  IF url = Malformed THEN Throws
        ELSE IF Includes(url.hostname, "docs.google.com") /\ gdoc # ""
            THEN <<"gdoc", gdoc>>
        ELSE IF /\ Includes(url.hostname, "docs.google.com")
                /\ IncludesSpreadsheets(url.pathname)
                /\ gsheet # ""
            THEN <<"gsheet", gsheet>>
        ELSE IF /\ \/ Includes(url.hostname, "office.com")
                   \/ Includes(url.hostname, "office365.com")
                /\ office # 0
            THEN <<"office", url.pathname[office],
                   LowerAlnumPrefix(url.pathname[office + 1])>>
        ELSE <<"domain", url.hostname>>

\* (mutant) no URL is filtered
IsInternalUrlNever(url) == FALSE

\* trackActiveTab's filter of browser-internal pages
IsInternalUrl(url) ==
    url.scheme \in {"chrome", "about", "edge", "chrome-extension", "moz-extension"}

\* the tabs whose tick gets past trackActiveTab's two early returns
Trackable == { t \in Tabs : TabTitle(t) # "" /\ ~IsInternalUrl(TabUrl(t)) }

\* the docKeys the poller records under
DocKeys == { generateDocKey(TabOf(t)) : t \in Trackable } \ {Throws}

-----------------------------------------------------------------------------
(* State *)

VARIABLES
    documents,          \* object store "documents": docKey -> DocumentRecord
    sessions,           \* object store "sessions": set of SessionRecords
    nextId,             \* key generator of "sessions" (autoIncrement)
    running,            \* the caller whose transaction is active, or NoCaller
    txDocuments,        \* the active transaction's view of "documents"
    txSessions,         \* the active transaction's view of "sessions"
    txNextId,           \* the active transaction's view of the key generator
    op,                 \* per caller: the store operation in flight
    clock,              \* the day number of "now"
    tabAccumulatedTime, \* background: tab id -> accumulated seconds (0: no entry)
    activeTab,          \* what tabs.query({active, lastFocusedWindow}) returns
    windowFocused,      \* the browser window has the focus and is not minimized
    trackAlarm,         \* the "trackTime" alarm is armed
    cleanupAlarm,       \* minutes until the "cleanup" alarm fires
    issued,             \* history: tab id -> recordSession(tab) calls since its
                        \* accumulator was last reset
    carried,            \* history: the tabs whose accumulator holds seconds
                        \* from before a tick that did not count them
    ledger,             \* history: per docKey, the recordSession calls that resolved
    lastSweep,          \* history: the last completed deleteOldSessions
    query,              \* the read-side call under study and its arguments
    answer              \* what that call returned

storeVars == <<documents, sessions, nextId>>
txVars == <<running, txDocuments, txSessions, txNextId>>
pollVars == <<tabAccumulatedTime, activeTab, windowFocused, trackAlarm,
              cleanupAlarm, issued, carried>>
histVars == <<ledger, lastSweep>>
readVars == <<query, answer>>
vars == <<documents, sessions, nextId, running, txDocuments, txSessions,
          txNextId, op, clock, tabAccumulatedTime, activeTab, windowFocused,
          trackAlarm, cleanupAlarm, issued, carried, ledger, lastSweep, query,
          answer>>

\* the invocations of trackActiveTab that can be awaiting recordSession at
\* one time: the one the alarm started, and one started by an alarm that
\* startTracking created anew in the meantime
Tickers == {"tick", "tick2"}

Callers == Tickers \cup {"sweep", "dash"}
NoCaller == "none"

NoKey == <<"", "">>
NoDate == <<0, 0, 0>>

IdleOp ==
    [kind |-> "none", pc |-> "idle", promise |-> "none", failure |-> FALSE,
     docKey |-> NoKey, tab |-> NoTab, date |-> NoDate]

NewLedger == [n |-> 0, sum |-> 0, swept |-> FALSE]

NoQuery == [fn |-> "none"]
NoAnswer == [done |-> FALSE, value |-> <<>>]

\* the service worker has run its top level (startTracking) for the first
\* time; no operation is in flight and no read-side call has returned
InitWorker ==
    /\ running = NoCaller
    /\ op = [c \in Callers |-> IdleOp]
    /\ clock = StartDay
    /\ tabAccumulatedTime = [t \in Tabs |-> 0]
    /\ activeTab = NoTab
    /\ windowFocused = TRUE
    /\ trackAlarm = TRUE
    /\ cleanupAlarm = CleanupPeriodInMinutes
    /\ issued = [t \in Tabs |-> 0]
    /\ carried = {}
    /\ lastSweep = [ran |-> FALSE, cutoff |-> NoDate, recorded |-> FALSE]
    /\ answer = NoAnswer

\* the database as init() creates it: both object stores empty
InitEmpty ==
    /\ documents = <<>>
    /\ sessions = {}
    /\ nextId = 1
    /\ txDocuments = <<>>
    /\ txSessions = {}
    /\ txNextId = 1
    /\ ledger = [k \in DocKeys |-> NewLedger]

Init ==
    /\ InitWorker
    /\ InitEmpty
    /\ query = NoQuery

-----------------------------------------------------------------------------
(* IndexedDBManager: the request handlers, as functions of the transaction's view *)

\* (mutant) the total is assigned, not added to
PutDocumentAssign(docs, docKey, title, url, durationMs, now) ==
    LET docRecord ==
            IF docKey \in DOMAIN docs
            THEN docs[docKey]
            ELSE [title |-> title, url |-> url, firstSeen |-> now,
                  lastSeen |-> now, totalTimeMs |-> 0]
    IN  (docKey :> [docRecord EXCEPT !.title = title,
                                     !.lastSeen = now,
                                     !.totalTimeMs = durationMs]) @@ docs

\* (mutant) the record is not read: every call starts from a new record
PutDocumentFresh(docs, docKey, title, url, durationMs, now) ==
    LET docRecord ==
            [title |-> title, url |-> url, firstSeen |-> now,
             lastSeen |-> now, totalTimeMs |-> 0]
    IN  (docKey :> [docRecord EXCEPT !.title = title,
                                     !.lastSeen = now,
                                     !.totalTimeMs = @ + durationMs]) @@ docs

\* (mutant) firstSeen is assigned like lastSeen
PutDocumentFirstSeen(docs, docKey, title, url, durationMs, now) ==
    LET docRecord ==
            IF docKey \in DOMAIN docs
            THEN docs[docKey]
            ELSE [title |-> title, url |-> url, firstSeen |-> now,
                  lastSeen |-> now, totalTimeMs |-> 0]
    IN  (docKey :> [docRecord EXCEPT !.title = title,
                                     !.firstSeen = now,
                                     !.lastSeen = now,
                                     !.totalTimeMs = @ + durationMs]) @@ docs

\* recordSession, docRequest.onsuccess: docRequest.result || {...}, then the
\* three assignments and docStore.put(docRecord)
PutDocument(docs, docKey, title, url, durationMs, now) ==
    LET docRecord ==
            IF docKey \in DOMAIN docs
            THEN docs[docKey]
            ELSE [title |-> title, url |-> url, firstSeen |-> now,
                  lastSeen |-> now, totalTimeMs |-> 0]
    IN  (docKey :> [docRecord EXCEPT !.title = title,
                                     !.lastSeen = now,
                                     !.totalTimeMs = @ + durationMs]) @@ docs

\* (mutant) the session row is not added
AddSessionSkipped(sess, id, docKey, date, durationMs, now) == sess

\* (mutant) the key generator is not used: every row gets the same id
AddSessionSameId(sess, id, docKey, date, durationMs, now) ==
    sess \cup {[id |-> 1, docKey |-> docKey, date |-> date,
                durationMs |-> durationMs, timestamp |-> now]}

\* (mutant) the row is added without its duration
AddSessionNoDuration(sess, id, docKey, date, durationMs, now) ==
    sess \cup {[id |-> id, docKey |-> docKey, date |-> date,
                durationMs |-> 0, timestamp |-> now]}

\* (mutant) the row carries twice the duration that the total grows by
AddSessionDoubled(sess, id, docKey, date, durationMs, now) ==
    sess \cup {[id |-> id, docKey |-> docKey, date |-> date,
                durationMs |-> 2 * durationMs, timestamp |-> now]}

\* recordSession, docRequest.onsuccess: sessionStore.add({...}), the key
\* generator supplying id
AddSession(sess, id, docKey, date, durationMs, now) ==
    sess \cup {[id |-> id, docKey |-> docKey, date |-> date,
                durationMs |-> durationMs, timestamp |-> now]}

\* the record a cursor over the "date" index is positioned on: the least
\* (date, id) of the records in its range
DateCursor(S) ==
    CHOOSE s \in S : \A r \in S :
        \/ s.date = r.date /\ s.id <= r.id
        \/ s.date # r.date /\ KeyLE(s.date, r.date)

\* deleteOldSessions: the records in IDBKeyRange.upperBound(cutoffDate)
OldSessions(sess, cutoffDate) ==
    { s \in sess : InUpperBound(s.date, cutoffDate) }

\* the record a cursor over the "docKey" index with IDBKeyRange.only(docKey)
\* is positioned on: the least id
DocKeyCursor(S) == CHOOSE s \in S : \A r \in S : s.id <= r.id

\* (mutant) the cursor is opened without a key range
OnlyRangeAll(sess, docKey) == sess

\* deleteDocument: the records in IDBKeyRange.only(docKey)
OnlyRange(sess, docKey) == { s \in sess : s.docKey = docKey }

\* (mutant) the document record is not deleted
DeleteDocRecordSkipped(docs, docKey) == docs

\* docStore.delete(docKey)
DeleteDocRecord(docs, docKey) ==
    [k \in DOMAIN docs \ {docKey} |-> docs[k]]

\* cleanupOldData: cutoffDate.setDate(getDate() - DATA_RETENTION_DAYS), then
\* toISOString().split("T")[0]; now is the instant of new Date() and zone
\* the time zone the browser runs in
CutoffString(zone, now) ==
    ISOString(SetDateBack(zone, now, DATA_RETENTION_DAYS))

-----------------------------------------------------------------------------
(* Transactions *)

\* the first request a transaction of each operation carries
FirstRequest(kind) ==
    CASE kind = "recordSession" -> "get"
      [] kind = "deleteOldSessions" -> "cursor"
      [] kind = "deleteDocument" -> "delete"

NewCall(kind, docKey, tab, date) ==
    [kind |-> kind, pc |-> "opening", promise |-> "pending", failure |-> FALSE,
     docKey |-> docKey, tab |-> tab, date |-> date]

\* the operation has ended: only its outcome is kept
Ended(o, promise, failure) ==
    [IdleOp EXCEPT !.kind = o.kind, !.pc = "done", !.promise = promise,
                   !.failure = failure]

\* a caller can issue an operation when it has none that can still act
Free(c) ==
    \/ op[c].pc = "idle"
    \/ op[c].pc = "done" /\ op[c].promise = "pending"

\* init(): request.onerror rejects, and the awaiting operation with it
OpenError(c) ==
    /\ op[c].pc = "opening"
    /\ op' = [op EXCEPT ![c] = Ended(op[c], "rejected", TRUE)]
    /\ UNCHANGED <<storeVars, txVars, clock, pollVars, histVars, readVars>>

\* init(): request.onsuccess; the operation creates its readwrite
\* transaction, which starts when no transaction with an overlapping scope
\* is active ("sessions" is in every scope)
TxnStart(c) ==
    /\ op[c].pc = "opening"
    /\ running = NoCaller
    /\ running' = c
    /\ op' = [op EXCEPT ![c].pc = FirstRequest(op[c].kind)]
    /\ UNCHANGED <<storeVars, txDocuments, txSessions, txNextId, clock,
                   pollVars, histVars, readVars>>

\* the view is dropped, the tables and the key generator keep their values
Rollback ==
    /\ running' = NoCaller
    /\ txDocuments' = documents
    /\ txSessions' = sessions
    /\ txNextId' = nextId
    /\ UNCHANGED storeVars

\* a request of the active transaction fails: the error event reaches
\* docRequest.onerror / request.onerror, or bubbles to transaction.onerror,
\* each of which rejects; the transaction aborts
RequestError(c) ==
    /\ running = c
    /\ op[c].pc \in {"get", "written", "cursor", "delete"}
    /\ op' = [op EXCEPT ![c] = Ended(op[c], "rejected", TRUE)]
    /\ Rollback
    /\ UNCHANGED <<clock, pollVars, histVars, readVars>>

\* the commit fails after the last request succeeded: only an abort event
\* is fired at the transaction, and no operation sets onabort
CommitAbort(c) ==
    /\ running = c
    /\ op[c].pc = "committing"
    /\ op' = [op EXCEPT ![c] = Ended(op[c], op[c].promise, TRUE)]
    /\ Rollback
    /\ UNCHANGED <<clock, pollVars, histVars, readVars>>

\* the session rows that carry a docKey
SessionsOf(sess, docKey) == { s \in sess : s.docKey = docKey }

\* totalTimeMs of a docKey, 0 when it has no DocumentRecord
TotalOfKey(docs, k) == IF k \in DOMAIN docs THEN docs[k].totalTimeMs ELSE 0

\* the history kept for the claims: what the completed transaction did
LedgerAfter(c) ==
    CASE op[c].kind = "recordSession" ->
            [ledger EXCEPT ![op[c].docKey].n = @ + 1,
                           ![op[c].docKey].sum = @ + TickDurationMs]
      [] op[c].kind = "deleteDocument" ->
            [ledger EXCEPT ![op[c].docKey] = NewLedger]
      [] op[c].kind = "deleteOldSessions" ->
            [k \in DocKeys |->
                [ledger[k] EXCEPT !.swept =
                    @ \/ SessionsOf(txSessions, k) # SessionsOf(sessions, k)]]

SweepAfter(c) ==
    CASE op[c].kind = "recordSession" -> [lastSweep EXCEPT !.recorded = TRUE]
      [] op[c].kind = "deleteDocument" -> lastSweep
      [] op[c].kind = "deleteOldSessions" ->
            [ran |-> TRUE, cutoff |-> op[c].date, recorded |-> FALSE]

\* the transaction commits: its view becomes the tables; transaction.oncomplete
\* resolves recordSession and deleteDocument (deleteOldSessions sets no
\* oncomplete: it resolved when its cursor ran out)
TxnComplete(c) ==
    /\ running = c
    /\ op[c].pc = "committing"
    /\ documents' = txDocuments
    /\ sessions' = txSessions
    /\ nextId' = txNextId
    /\ running' = NoCaller
    /\ op' = [op EXCEPT ![c] = Ended(op[c], "resolved", FALSE)]
    /\ ledger' = LedgerAfter(c)
    /\ lastSweep' = SweepAfter(c)
    /\ UNCHANGED <<txDocuments, txSessions, txNextId, clock, pollVars, readVars>>

-----------------------------------------------------------------------------
(* IndexedDBManager.recordSession *)

\* docRequest.onsuccess: the put and the add go into the transaction
RecordGetSuccess(c) ==
    /\ running = c
    /\ op[c].kind = "recordSession"
    /\ op[c].pc = "get"
    /\ txDocuments' = PutDocument(txDocuments, op[c].docKey, TabTitle(op[c].tab),
                                  TabUrl(op[c].tab), TickDurationMs, clock)
    /\ txSessions' = AddSession(txSessions, txNextId, op[c].docKey, op[c].date,
                                TickDurationMs, clock)
    /\ txNextId' = txNextId + 1
    /\ op' = [op EXCEPT ![c].pc = "written"]
    /\ UNCHANGED <<storeVars, running, clock, pollVars, histVars, readVars>>

\* the put and the add succeed: the transaction has no request left
RecordWritten(c) ==
    /\ running = c
    /\ op[c].kind = "recordSession"
    /\ op[c].pc = "written"
    /\ op' = [op EXCEPT ![c].pc = "committing"]
    /\ UNCHANGED <<storeVars, txVars, clock, pollVars, histVars, readVars>>

-----------------------------------------------------------------------------
(* IndexedDBManager.deleteOldSessions, cleanupOldData *)

\* the cutoff strings that cleanupOldData can compute on a day: at any hour
\* of it, in any of the time zones
CutoffStrings ==
    [day \in Days \cup DaysWithEve |->
        { CutoffString(zone, day * HoursPerDay + hour) :
            zone \in Zones, hour \in HoursOfDay }]

\* the calls of deleteOldSessions that cleanupOldData can make now
CleanupCalls ==
    { NewCall("deleteOldSessions", NoKey, NoTab, cutoffString) :
        cutoffString \in CutoffStrings[clock] }

\* cleanupOldData, whoever calls it
CleanupOldData ==
    /\ Free("sweep")
    /\ \E call \in CleanupCalls : op' = [op EXCEPT !["sweep"] = call]
    /\ UNCHANGED <<storeVars, txVars, clock, pollVars, histVars, readVars>>

\* thirty more minutes pass without the "cleanup" alarm being due
CleanupElapse ==
    /\ cleanupAlarm > 0
    /\ cleanupAlarm' = cleanupAlarm - ElapseMinutes
    /\ UNCHANGED <<storeVars, txVars, op, clock, tabAccumulatedTime, activeTab,
                   windowFocused, trackAlarm, issued, carried, histVars, readVars>>

\* the periodic "cleanup" alarm fires: onAlarm calls cleanupOldData, and the
\* alarm is due again a period later
OnAlarmCleanup ==
    /\ cleanupAlarm = 0
    /\ cleanupAlarm' = CleanupPeriodInMinutes
    /\ Free("sweep")
    /\ \E call \in CleanupCalls : op' = [op EXCEPT !["sweep"] = call]
    /\ UNCHANGED <<storeVars, txVars, clock, tabAccumulatedTime, activeTab,
                   windowFocused, trackAlarm, issued, carried, histVars, readVars>>

\* runtime.onInstalled: cleanupOldData(), then startTracking(), which
\* creates both alarms anew (the event of an alarm that is due has been
\* raised and is delivered whatever is created then, so this step is taken
\* before the alarm is due or after its event)
OnInstalled ==
    /\ cleanupAlarm > 0
    /\ Free("sweep")
    /\ \E call \in CleanupCalls : op' = [op EXCEPT !["sweep"] = call]
    /\ trackAlarm' = TRUE
    /\ cleanupAlarm' = CleanupPeriodInMinutes
    /\ UNCHANGED <<storeVars, txVars, clock, tabAccumulatedTime, activeTab,
                   windowFocused, issued, carried, histVars, readVars>>

\* (mutant) no cursor.continue(): one row is deleted, then resolve
DeleteOldCursorOnce(c) ==
    /\ running = c
    /\ op[c].kind = "deleteOldSessions"
    /\ op[c].pc = "cursor"
    /\ LET range == OldSessions(txSessions, op[c].date)
       IN  /\ txSessions' = IF range # {} THEN txSessions \ {DateCursor(range)}
                                          ELSE txSessions
           /\ op' = [op EXCEPT ![c].pc = "committing",
                               ![c].promise = "resolved"]
    /\ UNCHANGED <<storeVars, running, txDocuments, txNextId, clock, pollVars,
                   histVars, readVars>>

\* (mutant) the sweep also deletes the document a deleted row belonged to
DeleteOldCursorCascade(c) ==
    /\ running = c
    /\ op[c].kind = "deleteOldSessions"
    /\ op[c].pc = "cursor"
    /\ LET range == OldSessions(txSessions, op[c].date)
       IN  IF range # {}
           THEN /\ txSessions' = txSessions \ {DateCursor(range)}
                /\ txDocuments' =
                        DeleteDocRecord(txDocuments, DateCursor(range).docKey)
                /\ op' = op
           ELSE /\ txSessions' = txSessions
                /\ txDocuments' = txDocuments
                /\ op' = [op EXCEPT ![c].pc = "committing",
                                    ![c].promise = "resolved"]
    /\ UNCHANGED <<storeVars, running, txNextId, clock, pollVars, histVars, readVars>>

\* request.onsuccess of the cursor: delete and continue, or resolve
DeleteOldCursor(c) ==
    /\ running = c
    /\ op[c].kind = "deleteOldSessions"
    /\ op[c].pc = "cursor"
    /\ LET range == OldSessions(txSessions, op[c].date)
       IN  IF range # {}
           THEN /\ txSessions' = txSessions \ {DateCursor(range)}
                /\ op' = op
           ELSE /\ txSessions' = txSessions
                /\ op' = [op EXCEPT ![c].pc = "committing",
                                    ![c].promise = "resolved"]
    /\ UNCHANGED <<storeVars, running, txDocuments, txNextId, clock, pollVars,
                   histVars, readVars>>

-----------------------------------------------------------------------------
(* dashboard: deleteDocument *)

\* a delete button of the table is clicked and the dialog confirmed
DeleteDocument(k) ==
    /\ Free("dash")
    /\ k \in DOMAIN documents
    /\ op' = [op EXCEPT !["dash"] = NewCall("deleteDocument", k, NoTab, NoDate)]
    /\ UNCHANGED <<storeVars, txVars, clock, pollVars, histVars, readVars>>

\* docStore.delete(docKey) succeeds
DeleteDocSuccess(c) ==
    /\ running = c
    /\ op[c].kind = "deleteDocument"
    /\ op[c].pc = "delete"
    /\ txDocuments' = DeleteDocRecord(txDocuments, op[c].docKey)
    /\ op' = [op EXCEPT ![c].pc = "cursor"]
    /\ UNCHANGED <<storeVars, running, txSessions, txNextId, clock, pollVars,
                   histVars, readVars>>

\* (mutant) the cursor deletes nothing: the sessions of the document stay
DeleteDocCursorNone(c) ==
    /\ running = c
    /\ op[c].kind = "deleteDocument"
    /\ op[c].pc = "cursor"
    /\ op' = [op EXCEPT ![c].pc = "committing"]
    /\ UNCHANGED <<storeVars, txVars, clock, pollVars, histVars, readVars>>

\* sessionRequest.onsuccess: delete and continue, or nothing
DeleteDocCursor(c) ==
    /\ running = c
    /\ op[c].kind = "deleteDocument"
    /\ op[c].pc = "cursor"
    /\ LET range == OnlyRange(txSessions, op[c].docKey)
       IN  IF range # {}
           THEN /\ txSessions' = txSessions \ {DocKeyCursor(range)}
                /\ op' = op
           ELSE /\ txSessions' = txSessions
                /\ op' = [op EXCEPT ![c].pc = "committing"]
    /\ UNCHANGED <<storeVars, running, txDocuments, txNextId, clock, pollVars,
                   histVars, readVars>>

-----------------------------------------------------------------------------
(* background: the tracking alarm and trackActiveTab *)

\* (mutant) the threshold itself is not enough
AtThresholdStrict(seconds) == seconds > MIN_RECORD_SECONDS

\* trackActiveTab: tabAccumulatedTime[tabId].seconds >= CONFIG.MIN_RECORD_SECONDS
AtThreshold(seconds) == seconds >= MIN_RECORD_SECONDS

\* startTracking, at the top level of the service worker (every time the
\* worker starts) and in runtime.onStartup: alarms.create replaces the alarm
\* of the same name, so both alarms are due a full delay from now (the
\* event of an alarm that is due has been raised and is delivered whatever
\* is created then, so this step is taken before the alarm is due or after
\* its event)
StartTracking ==
    /\ cleanupAlarm > 0
    /\ ~trackAlarm \/ cleanupAlarm # CleanupPeriodInMinutes
    /\ trackAlarm' = TRUE
    /\ cleanupAlarm' = CleanupPeriodInMinutes
    /\ UNCHANGED <<storeVars, txVars, op, clock, tabAccumulatedTime, activeTab,
                   windowFocused, issued, carried, histVars, readVars>>

\* the one-shot alarm fires: onAlarm calls trackActiveTab
AlarmFire ==
    /\ trackAlarm
    /\ Free("tick")
    /\ trackAlarm' = FALSE
    /\ op' = [op EXCEPT !["tick"] = [IdleOp EXCEPT !.pc = "run"]]
    /\ UNCHANGED <<storeVars, txVars, clock, tabAccumulatedTime, activeTab,
                   windowFocused, cleanupAlarm, issued, carried, histVars, readVars>>

\* trackActiveTab up to its await: the two early returns re-arm the alarm;
\* otherwise the accumulator is incremented and, at the threshold,
\* recordSession(activeTab) is called; when generateDocKey throws in it, the
\* catch block logs the error and the alarm is re-armed
TrackActiveTab ==
    /\ op["tick"].pc = "run"
    /\ IF \/ activeTab = NoTab
          \/ TabTitle(activeTab) = ""
          \/ IsInternalUrl(TabUrl(activeTab))
       THEN /\ trackAlarm' = TRUE
            /\ op' = [op EXCEPT !["tick"] = IdleOp]
            /\ UNCHANGED <<tabAccumulatedTime, issued>>
       ELSE /\ tabAccumulatedTime[activeTab] < MaxSeconds
            /\ tabAccumulatedTime' =
                    [tabAccumulatedTime EXCEPT ![activeTab] = @ + 1]
            /\ IF AtThreshold(tabAccumulatedTime[activeTab] + 1)
               THEN /\ issued' = [issued EXCEPT ![activeTab] = @ + 1]
                    /\ IF generateDocKey(TabOf(activeTab)) = Throws
                       THEN /\ trackAlarm' = TRUE
                            /\ op' = [op EXCEPT !["tick"] = IdleOp]
                       ELSE /\ nextId <= MaxSessions
                            /\ op' = [op EXCEPT !["tick"] =
                                    NewCall("recordSession",
                                            generateDocKey(TabOf(activeTab)),
                                            activeTab, ISODate(clock))]
                            /\ UNCHANGED trackAlarm
               ELSE /\ trackAlarm' = TRUE
                    /\ op' = [op EXCEPT !["tick"] = IdleOp]
                    /\ UNCHANGED issued
    /\ carried' = carried \cup
            { t \in Tabs : /\ tabAccumulatedTime[t] > 0
                           /\ tabAccumulatedTime'[t] = tabAccumulatedTime[t] }
    /\ UNCHANGED <<storeVars, txVars, clock, activeTab, windowFocused,
                   cleanupAlarm, histVars, readVars>>

\* background recordSession(tab): docKey, today, and the call of
\* IndexedDBManager.recordSession with durationMs 1000 (no call when
\* generateDocKey throws)
RecordSession(t) ==
    /\ Free("tick")
    /\ nextId <= MaxSessions
    /\ generateDocKey(TabOf(t)) # Throws
    /\ op' = [op EXCEPT !["tick"] =
                NewCall("recordSession", generateDocKey(TabOf(t)), t,
                        ISODate(clock))]
    /\ UNCHANGED <<storeVars, txVars, clock, pollVars, histVars, readVars>>

\* recordSession(tab) of a second invocation of trackActiveTab, called
\* while the first one's call is in flight
RecordSessionOverlapping(t) ==
    /\ op["tick"].kind = "recordSession"
    /\ op["tick"].pc \notin {"idle", "done"}
    /\ Free("tick2")
    /\ nextId <= MaxSessions
    /\ generateDocKey(TabOf(t)) # Throws
    /\ op' = [op EXCEPT !["tick2"] =
                NewCall("recordSession", generateDocKey(TabOf(t)), t,
                        ISODate(clock))]
    /\ UNCHANGED <<storeVars, txVars, clock, pollVars, histVars, readVars>>

\* the operation's promise has settled and its caller goes on: trackActiveTab
\* leaves its try block (a rejection is caught and logged) and re-arms the
\* alarm; cleanupOldData and deleteDocument have nothing more to do to the store
Return(c) ==
    /\ op[c].pc = "done"
    /\ op[c].promise \in {"resolved", "rejected"}
    /\ op' = [op EXCEPT ![c] = IdleOp]
    /\ trackAlarm' = IF c \in Tickers THEN TRUE ELSE trackAlarm
    /\ UNCHANGED <<storeVars, txVars, clock, tabAccumulatedTime, activeTab,
                   windowFocused, cleanupAlarm, issued, carried, histVars, readVars>>

\* (mutant) the reset also drops the store call that is in flight
OnActivatedCancel(t) ==
    /\ t # activeTab
    /\ activeTab' = t
    /\ tabAccumulatedTime' = [x \in Tabs |-> 0]
    /\ issued' = [x \in Tabs |-> 0]
    /\ carried' = {}
    /\ op' = [op EXCEPT !["tick"] = IdleOp]
    /\ UNCHANGED <<storeVars, txVars, clock, windowFocused, trackAlarm,
                   cleanupAlarm, histVars, readVars>>

\* tabs.onActivated: another tab of the window becomes the active one
OnActivated(t) ==
    /\ t # activeTab
    /\ activeTab' = t
    /\ tabAccumulatedTime' = [x \in Tabs |-> 0]
    /\ issued' = [x \in Tabs |-> 0]
    /\ carried' = {}
    /\ UNCHANGED <<storeVars, txVars, op, clock, windowFocused, trackAlarm,
                   cleanupAlarm, histVars, readVars>>

\* tabs.onRemoved: a tab that is not the active one is closed
OnRemoved(t) ==
    /\ t # activeTab
    /\ tabAccumulatedTime[t] # 0
    /\ tabAccumulatedTime' = [tabAccumulatedTime EXCEPT ![t] = 0]
    /\ issued' = [issued EXCEPT ![t] = 0]
    /\ carried' = carried \ {t}
    /\ UNCHANGED <<storeVars, txVars, op, clock, activeTab, windowFocused,
                   trackAlarm, cleanupAlarm, histVars, readVars>>

\* another browser window becomes the last focused one: the query reports
\* that window's active tab (or none); no listener is registered for it
WindowSwitch(t) ==
    /\ t # activeTab
    /\ activeTab' = t
    /\ UNCHANGED <<storeVars, txVars, op, clock, tabAccumulatedTime,
                   windowFocused, trackAlarm, cleanupAlarm, issued, carried, histVars,
                   readVars>>

\* the browser window loses the focus or is minimized, or gets it back; no
\* listener is registered for it
FocusChange ==
    /\ windowFocused' = ~windowFocused
    /\ UNCHANGED <<storeVars, txVars, op, clock, tabAccumulatedTime, activeTab,
                   trackAlarm, cleanupAlarm, issued, carried, histVars, readVars>>

\* time passes: midnight can fall while operations are in flight; the
\* weeks up to the retention horizon pass between operations, none of which
\* stays in flight for days
AdvanceClock(days) ==
    /\ \E d \in days :
            /\ d > clock
            /\ d > clock + 1 => \A c \in Callers : op[c].pc \in {"idle", "done"}
            /\ clock' = d
    /\ UNCHANGED <<storeVars, txVars, op, pollVars, histVars, readVars>>

-----------------------------------------------------------------------------

(* read side: generateDocKey, getWeekKey and getTimeBreakdown as calls *)

\* (mutant) the index is read without a key: the sessions of every docKey
getSessionsByDocKeyAll(sess, docKey) == sess

\* getSessionsByDocKey: index("docKey").getAll(docKey)
getSessionsByDocKey(sess, docKey) == { s \in sess : s.docKey = docKey }

\* getWeekKey(dateString) in a browser that runs in the given time zone
getWeekKey(dateString, zone) ==
    LET date == ParseDate(dateString)
        firstDay == SetDateBack(zone, date, GetDay(zone, date))
    IN  ISOString(firstDay)

\* getTimeBreakdown: the key a session is counted under; substring(0, 7) of
\* a date is its year and month
BreakdownKey(session, period, zone) ==
    CASE period = "week" -> getWeekKey(session.date, zone)
      [] period = "month" -> <<session.date[1], session.date[2]>>
      [] OTHER -> session.date

\* getTimeBreakdown: sessions.forEach, in the order getAll returns them (by id)
RECURSIVE ForEachSession(_, _, _, _)
ForEachSession(S, breakdown, period, zone) ==
    IF S = {} THEN breakdown
    ELSE LET session == DocKeyCursor(S)
             key == BreakdownKey(session, period, zone)
             zeroed == IF key \in DOMAIN breakdown /\ breakdown[key] # 0
                       THEN breakdown
                       ELSE (key :> 0) @@ breakdown
         IN  ForEachSession(S \ {session},
                            [zeroed EXCEPT ![key] = @ + session.durationMs],
                            period, zone)

getTimeBreakdown(sess, docKey, period, zone) ==
    ForEachSession(getSessionsByDocKey(sess, docKey), <<>>, period, zone)

GenerateDocKeyCall ==
    /\ query.fn = "generateDocKey"
    /\ ~answer.done
    /\ answer' = [done |-> TRUE, value |-> generateDocKey(query.tab)]
    /\ UNCHANGED <<storeVars, txVars, op, clock, pollVars, histVars, query>>

GetWeekKeyCall ==
    /\ query.fn = "getWeekKey"
    /\ ~answer.done
    /\ answer' = [done |-> TRUE,
                  value |-> getWeekKey(query.dateString, query.zone)]
    /\ UNCHANGED <<storeVars, txVars, op, clock, pollVars, histVars, query>>

GetTimeBreakdownCall ==
    /\ query.fn = "getTimeBreakdown"
    /\ ~answer.done
    /\ answer' = [done |-> TRUE,
                  value |-> getTimeBreakdown(sessions, query.docKey,
                                             query.period, query.zone)]
    /\ UNCHANGED <<storeVars, txVars, op, clock, pollVars, histVars, query>>

\* the URLs generateDocKey is applied to, each in a tab
InitResolver ==
    /\ InitWorker
    /\ InitEmpty
    /\ query \in { [fn |-> "generateDocKey",
                    tab |-> [id |-> 1, url |-> url, title |-> "Tab"]] :
                        url \in Urls }

\* updatePopup: the docKey under which the popup looks up the current tab's
\* statistics
UpdatePopupCall ==
    /\ query.fn = "updatePopup"
    /\ ~answer.done
    /\ answer' = [done |-> TRUE, value |-> generateDocKeyPopup(query.tab)]
    /\ UNCHANGED <<storeVars, txVars, op, clock, pollVars, histVars, query>>

\* the popup is opened on a tab with a title and each of the URLs
InitPopup ==
    /\ InitWorker
    /\ InitEmpty
    /\ query \in { [fn |-> "updatePopup",
                    tab |-> [id |-> 1, url |-> url, title |-> "Tab"]] :
                        url \in Urls }

\* the dates getWeekKey is applied to, from 2023-12-30 on, in each zone
QueryDays == StartDay - 31 .. StartDay - 31 + MaxQueryDays

InitWeekKey ==
    /\ InitWorker
    /\ InitEmpty
    /\ query \in { [fn |-> "getWeekKey", dateString |-> ISODate(day),
                    zone |-> zone] : day \in QueryDays, zone \in Zones }

\* the stores getTimeBreakdown reads: the recordSession calls that filled
\* them, in the order of their ids, on 2023-12-30, 2023-12-31 and 2024-01-01
RecordCalls ==
    [docKey : DocKeys,
     day : {StartDay - 31, StartDay - 30, StartDay - 29},
     durationMs : {TickDurationMs, 2 * TickDurationMs, 3 * TickDurationMs}]

CallSequences ==
    UNION { { calls \in [1 .. n -> RecordCalls] :
                \A i \in 1 .. n - 1 : calls[i].day <= calls[i + 1].day } :
            n \in 0 .. MaxRows }

\* a tab that has the docKey
TabWithKey(docKey) ==
    CHOOSE t \in Trackable : generateDocKey(TabOf(t)) = docKey

\* the tables after the first n of the calls have completed
RECURSIVE Recorded(_, _)
Recorded(calls, n) ==
    IF n = 0 THEN [documents |-> <<>>, sessions |-> {}]
    ELSE LET before == Recorded(calls, n - 1)
             call == calls[n]
             t == TabWithKey(call.docKey)
         IN  [documents |->
                PutDocument(before.documents, call.docKey, TabTitle(t),
                            TabUrl(t), call.durationMs, call.day),
              sessions |->
                AddSession(before.sessions, n, call.docKey,
                           ISODate(call.day), call.durationMs, call.day)]

InitBreakdown ==
    /\ InitWorker
    /\ \E calls \in CallSequences :
        LET tables == Recorded(calls, Len(calls))
        IN  /\ documents = tables.documents
            /\ sessions = tables.sessions
            /\ nextId = Len(calls) + 1
            /\ txDocuments = tables.documents
            /\ txSessions = tables.sessions
            /\ txNextId = Len(calls) + 1
            /\ ledger = [k \in DocKeys |->
                    LET mine == { i \in 1 .. Len(calls) : calls[i].docKey = k }
                    IN  [n |-> Cardinality(mine),
                         sum |-> TotalOfKey(tables.documents, k),
                         swept |-> FALSE]]
    /\ query \in { [fn |-> "getTimeBreakdown", docKey |-> k, period |-> p,
                    zone |-> zone] :
                        k \in DocKeys, p \in {"day", "week", "month"},
                        zone \in Zones }

-----------------------------------------------------------------------------

\* the steps of the store's transactions, whoever issued the operation
StoreStep ==
    \/ \E c \in Callers : OpenError(c)
    \/ \E c \in Callers : TxnStart(c)
    \/ \E c \in Callers : RequestError(c)
    \/ \E c \in Callers : CommitAbort(c)
    \/ \E c \in Callers : TxnComplete(c)
    \/ \E c \in Callers : RecordGetSuccess(c)
    \/ \E c \in Callers : RecordWritten(c)
    \/ \E c \in Callers : Return(c)

SweeperStep ==
    \/ CleanupOldData
    \/ \E c \in Callers : DeleteOldCursor(c)

DashboardStep ==
    \/ \E k \in DocKeys : DeleteDocument(k)
    \/ \E c \in Callers : DeleteDocSuccess(c)
    \/ \E c \in Callers : DeleteDocCursor(c)

\* the poller in a browser that has the given tabs open
PollerStep(tabs) ==
    \/ StartTracking
    \/ AlarmFire
    \/ TrackActiveTab
    \/ \E t \in tabs : OnActivated(t)
    \/ \E t \in tabs : OnRemoved(t)
    \/ \E t \in tabs \cup {NoTab} : WindowSwitch(t)
    \/ FocusChange

\* the extension: poller, sweeper, dashboard and store
Next ==
    \/ StoreStep
    \/ SweeperStep
    \/ DashboardStep
    \/ PollerStep(Tabs)
    \/ CleanupElapse
    \/ OnAlarmCleanup
    \/ OnInstalled
    \/ AdvanceClock(Days)

Spec == Init /\ [][Next]_vars

\* the tabs of a browser in which every page has committed its navigation
\* and no two pages share a docKey
LoadedTabs == Tabs \ {4, 6}

\* the store with its three users, the poller reduced to the calls it
\* issues: recordSession(tab) for a trackable tab, at any time
NextStore ==
    \/ StoreStep
    \/ SweeperStep
    \/ DashboardStep
    \/ \E t \in Trackable \cap LoadedTabs : RecordSession(t)
    \/ AdvanceClock(Days)

SpecStore == Init /\ [][NextStore]_vars

\* the tabs of a browser with a document and a tab that has not yet
\* committed its first navigation
LoadingTabs == {1, 4}

\* the poller and the store operation it issues, with no sweep, no
\* dashboard and no change of day
NextPoller ==
    \/ StoreStep
    \/ PollerStep(LoadedTabs)

SpecPoller == Init /\ [][NextPoller]_vars

\* the poller in a browser with a tab that is still loading
NextLoading ==
    \/ StoreStep
    \/ PollerStep(LoadingTabs)

SpecLoading == Init /\ [][NextLoading]_vars

\* the tabs of a browser with a document and a browser-internal page
TickerTabs == {1, 3}

\* the tracking alarm, the tick and the store operation it awaits, in a
\* worker that has started once
NextTicker ==
    \/ AlarmFire
    \/ TrackActiveTab
    \/ StoreStep
    \/ \E t \in TickerTabs \cup {NoTab} : WindowSwitch(t)

\* a due alarm fires, the handler runs, and the database answers the
\* requests it is given; nothing obliges a request to fail
TickerFairness ==
    /\ WF_vars(AlarmFire)
    /\ WF_vars(TrackActiveTab)
    /\ \A c \in Tickers :
            /\ WF_vars(TxnStart(c))
            /\ WF_vars(RecordGetSuccess(c))
            /\ WF_vars(RecordWritten(c))
            /\ WF_vars(TxnComplete(c))
            /\ WF_vars(Return(c))

SpecTicker == Init /\ [][NextTicker]_vars /\ TickerFairness

\* the store with two invocations of trackActiveTab whose recordSession
\* calls overlap
NextOverlap ==
    \/ StoreStep
    \/ \E t \in Trackable \cap LoadedTabs : RecordSession(t)
    \/ \E t \in Trackable \cap LoadedTabs : RecordSessionOverlapping(t)

SpecOverlap == Init /\ [][NextOverlap]_vars

\* two tabs on pages of one site: different URLs and titles, one docKey
RevisitTabs == {2, 6}

\* the store with a tracker that records time on either page and the
\* dashboard, over the days
NextRevisit ==
    \/ StoreStep
    \/ DashboardStep
    \/ \E t \in RevisitTabs : RecordSession(t)
    \/ AdvanceClock(Days)

SpecRevisit == Init /\ [][NextRevisit]_vars

\* the sweeper with its alarm, the worker restarting and the store
\* operations succeeding, over the days around the retention horizon
NextCleanup ==
    \/ StartTracking
    \/ OnInstalled
    \/ CleanupElapse
    \/ OnAlarmCleanup
    \/ \E c \in Callers : TxnStart(c)
    \/ \E c \in Callers : RecordGetSuccess(c)
    \/ \E c \in Callers : RecordWritten(c)
    \/ \E c \in Callers : DeleteOldCursor(c)
    \/ \E c \in Callers : TxnComplete(c)
    \/ \E c \in Callers : Return(c)
    \/ \E t \in Trackable \cap LoadedTabs : RecordSession(t)
    \/ AdvanceClock(DaysWithEve)

\* time passes, a due alarm fires, and the store's requests are answered
CleanupFairness ==
    /\ WF_vars(CleanupElapse)
    /\ WF_vars(OnAlarmCleanup)
    /\ \A c \in Callers :
            /\ WF_vars(TxnStart(c))
            /\ WF_vars(RecordGetSuccess(c))
            /\ WF_vars(RecordWritten(c))
            /\ WF_vars(DeleteOldCursor(c))
            /\ WF_vars(TxnComplete(c))
            /\ WF_vars(Return(c))

SpecCleanup == Init /\ [][NextCleanup]_vars /\ CleanupFairness

\* generateDocKey applied to each URL
NextResolver == GenerateDocKeyCall

SpecResolver == InitResolver /\ [][NextResolver]_vars

\* the popup's lookup key for each URL
NextPopup == UpdatePopupCall

SpecPopup == InitPopup /\ [][NextPopup]_vars

\* getWeekKey applied to each date in each time zone
NextWeekKey == GetWeekKeyCall

SpecWeekKey == InitWeekKey /\ [][NextWeekKey]_vars

\* getTimeBreakdown applied to each store, docKey and period
NextBreakdown == GetTimeBreakdownCall

SpecBreakdown == InitBreakdown /\ [][NextBreakdown]_vars

-----------------------------------------------------------------------------
(* Properties *)

RECURSIVE SumDurations(_)
SumDurations(S) ==
    IF S = {} THEN 0
    ELSE LET s == CHOOSE x \in S : TRUE
         IN  s.durationMs + SumDurations(S \ {s})

\* totalTimeMs of a docKey, 0 when it has no DocumentRecord
TotalOf(docs, k) == TotalOfKey(docs, k)

\* this step ends caller c's operation of the given kind with its commit
Completes(c, kind) ==
    /\ op[c].kind = kind
    /\ running = c
    /\ op[c].pc = "committing"
    /\ op'[c].pc = "done"
    /\ ~op'[c].failure

\* this step ends caller c's operation of the given kind with a failure
Fails(c, kind) ==
    /\ op[c].kind = kind
    /\ ~op[c].failure
    /\ op'[c].failure

\* C1: recordSession is additive. As long as no session of K has been
\* deleted since K had no record, after N resolved recordSession calls for K
\* the DocumentRecord of K holds the sum of their durations and K has
\* exactly N SessionRecords, whatever was recorded for other docKeys.
C1_RecordSessionAdditive ==
    \A k \in DocKeys :
        (ledger[k].n > 0 /\ ~ledger[k].swept) =>
            /\ k \in DOMAIN documents
            /\ documents[k].totalTimeMs = ledger[k].sum
            /\ Cardinality(SessionsOf(sessions, k)) = ledger[k].n

C1_Witness ==
    \E k \in DocKeys :
        /\ ledger[k].n = 2
        /\ ~ledger[k].swept
        /\ op["tick"].kind = "recordSession"
        /\ op["tick"].promise = "resolved"

\* C2 as stated: in every reachable state every DocumentRecord's
\* totalTimeMs equals the sum of durationMs of the SessionRecords that
\* carry its docKey.
C2_TotalEqualsSessionSum ==
    \A k \in DOMAIN documents :
        documents[k].totalTimeMs = SumDurations(SessionsOf(sessions, k))

\* C2 amended: the equality holds for every DocumentRecord none of whose
\* sessions has been removed by deleteOldSessions since it was created.
C2_TotalEqualsSumUnlessSwept ==
    \A k \in DOMAIN documents :
        ~ledger[k].swept =>
            documents[k].totalTimeMs = SumDurations(SessionsOf(sessions, k))

C2_Witness ==
    \E j, k \in DOMAIN documents :
        /\ ledger[j].swept
        /\ ~ledger[k].swept
        /\ SessionsOf(sessions, k) # {}
        /\ lastSweep.ran

\* C3: recordSession is atomic. Every step changes the committed tables so
\* that the DocumentRecord of K is written exactly when one SessionRecord of
\* K is added, with totalTimeMs grown by that row's durationMs; and the step
\* in which a recordSession fails leaves the tables and the key generator
\* as they were.
C3_RecordSessionAtomic ==
    [][ /\ \A k \in DocKeys :
            LET added == SessionsOf(sessions', k) \ SessionsOf(sessions, k)
                written == /\ k \in DOMAIN documents'
                           /\ \/ k \notin DOMAIN documents
                              \/ documents'[k] # documents[k]
            IN  (written \/ added # {}) =>
                    /\ Cardinality(added) = 1
                    /\ k \in DOMAIN documents'
                    /\ documents'[k].totalTimeMs =
                            TotalOf(documents, k) + SumDurations(added)
        /\ \A c \in Callers :
            Fails(c, "recordSession") =>
                /\ documents' = documents
                /\ sessions' = sessions
                /\ nextId' = nextId
      ]_vars

C3_Witness ==
    /\ op["tick"].kind = "recordSession"
    /\ op["tick"].failure
    /\ op["tick"].promise = "rejected"
    /\ \E k \in DocKeys : ledger[k].n = 1 /\ ~ledger[k].swept
    /\ Cardinality(sessions) = 1
    /\ nextId = 2

\* C4: every storage failure of a store operation makes its promise
\* reject: an operation that has met a failure never has a promise that is
\* resolved, or pending with the transaction over.
C4_FailureRejects ==
    \A c \in Callers :
        (op[c].pc = "done" /\ op[c].failure) => op[c].promise = "rejected"

\* C5: a deleteOldSessions(cutoff) that commits removes exactly the
\* SessionRecords dated on or before the cutoff day and leaves the later
\* ones as they are; when the previous completed call had the same cutoff
\* and no recordSession completed since, it removes nothing.
C5_DeleteOldSessionsRange ==
    [][ \A c \in Callers :
            Completes(c, "deleteOldSessions") =>
                /\ sessions' =
                        { s \in sessions : DayOf(s.date) > DayOf(op[c].date) }
                /\ ( /\ lastSweep.ran
                     /\ lastSweep.cutoff = op[c].date
                     /\ ~lastSweep.recorded ) => sessions' = sessions
      ]_vars

C5_Witness ==
    /\ lastSweep.ran
    /\ \E k \in DocKeys :
            /\ ledger[k].swept
            /\ ledger[k].n = 1
            /\ SessionsOf(sessions, k) = {}
    /\ \E s \in sessions : DayOf(s.date) > DayOf(lastSweep.cutoff)
    /\ clock = StartDay + DATA_RETENTION_DAYS

\* C6 as stated: a sweep that follows a completed sweep, with the same or a
\* later cutoff, deletes no SessionRecord.
C6_SweepIdempotentSameOrLater ==
    [][ \A c \in Callers :
            ( /\ Completes(c, "deleteOldSessions")
              /\ lastSweep.ran
              /\ DayOf(op[c].date) >= DayOf(lastSweep.cutoff) ) =>
                sessions' = sessions
      ]_vars

\* C6 amended: a sweep that follows a completed sweep, with the same cutoff
\* date, deletes no SessionRecord.
C6_SweepIdempotentSameCutoff ==
    [][ \A c \in Callers :
            ( /\ Completes(c, "deleteOldSessions")
              /\ lastSweep.ran
              /\ op[c].date = lastSweep.cutoff ) =>
                sessions' = sessions
      ]_vars

\* a second sweep with the same cutoff has run its cursor to the end, with
\* rows in the store that were recorded since the first
C6_Witness ==
    /\ running = "sweep"
    /\ op["sweep"].pc = "committing"
    /\ lastSweep.ran
    /\ lastSweep.cutoff = op["sweep"].date
    /\ lastSweep.recorded
    /\ txSessions # {}
    /\ \E k \in DocKeys : ledger[k].swept

\* C7: no step of a deleteOldSessions operation changes the documents
\* table, in the store or in its transaction; and a DocumentRecord
\* disappears only in the commit of a deleteDocument for its docKey.
C7_SweepLeavesDocuments ==
    [][ /\ \A c \in Callers :
            ( /\ op[c].kind = "deleteOldSessions"
              /\ running = c \/ op'[c] # op[c] ) =>
                /\ documents' = documents
                /\ txDocuments' = txDocuments
        /\ \A k \in DOMAIN documents :
            k \notin DOMAIN documents' =>
                \E c \in Callers :
                    /\ Completes(c, "deleteDocument")
                    /\ op[c].docKey = k
      ]_vars

C7_Witness ==
    \E k \in DOMAIN documents :
        /\ ledger[k].swept
        /\ SessionsOf(sessions, k) = {}
        /\ documents[k].totalTimeMs = TickDurationMs + TickDurationMs
        /\ documents[k].firstSeen = StartDay

\* C8: the commit of deleteDocument(K) leaves no DocumentRecord and no
\* SessionRecord of K, and leaves the DocumentRecord and the SessionRecords
\* of every other docKey as they were.
C8_DeleteDocumentEffect ==
    [][ \A c \in Callers :
            Completes(c, "deleteDocument") =>
                /\ op'[c].promise = "resolved"
                /\ op[c].docKey \notin DOMAIN documents'
                /\ SessionsOf(sessions', op[c].docKey) = {}
                /\ \A j \in DocKeys \ {op[c].docKey} :
                        /\ j \in DOMAIN documents' <=> j \in DOMAIN documents
                        /\ j \in DOMAIN documents =>
                                documents'[j] = documents[j]
                        /\ SessionsOf(sessions', j) = SessionsOf(sessions, j)
      ]_vars

C8_Witness ==
    /\ op["dash"].kind = "deleteDocument"
    /\ op["dash"].pc = "done"
    /\ op["dash"].promise = "resolved"
    /\ Cardinality(DOMAIN documents) = 1
    /\ Cardinality(sessions) = 1
    /\ nextId = 3

\* C9: deleteDocument is atomic. No step removes the DocumentRecord of K
\* and leaves a SessionRecord of K; a step of a deleteDocument(K) operation
\* either leaves the tables as they were or leaves neither the
\* DocumentRecord nor any SessionRecord of K; and the step in which a
\* deleteDocument fails leaves the tables as they were.
C9_DeleteDocumentAtomic ==
    [][ /\ \A k \in DOMAIN documents :
            k \notin DOMAIN documents' => SessionsOf(sessions', k) = {}
        /\ \A c \in Callers :
            (op[c].kind = "deleteDocument" /\ running = c) =>
                \/ documents' = documents /\ sessions' = sessions
                \/ /\ op[c].docKey \notin DOMAIN documents'
                   /\ SessionsOf(sessions', op[c].docKey) = {}
        /\ \A c \in Callers :
            Fails(c, "deleteDocument") =>
                documents' = documents /\ sessions' = sessions
      ]_vars

C9_Witness ==
    /\ op["dash"].kind = "deleteDocument"
    /\ op["dash"].failure
    /\ op["dash"].promise = "rejected"
    /\ Cardinality(DOMAIN documents) = 2
    /\ Cardinality(sessions) = 2

\* C10: on a tick during which the browser window is unfocused or
\* minimized, no accumulator is incremented and no session is recorded.
C10_NoTrackingWhenUnfocused ==
    [][ (~windowFocused /\ op["tick"].pc = "run") =>
            /\ \A t \in Tabs : tabAccumulatedTime'[t] <= tabAccumulatedTime[t]
            /\ op'["tick"].kind # "recordSession"
      ]_vars

\* the first of a sequence of candidate keys that is one (<<>>: the rule does
\* not apply), <<>> when there is none
RECURSIVE FirstKey(_)
FirstKey(candidates) ==
    IF candidates = <<>> THEN <<>>
    ELSE IF Head(candidates) # <<>> THEN Head(candidates)
    ELSE FirstKey(Tail(candidates))

\* a rule: the host contains one of the domains and the path holds an id
\* after the literal segments
RuleKey(url, tag, domains, lit) ==
    IF /\ \E d \in domains : Includes(url.hostname, d)
       /\ MatchAfter(url.pathname, lit) # ""
    THEN <<tag, MatchAfter(url.pathname, lit)>>
    ELSE <<>>

\* the office rule: the id is the first pair of path segments
OfficeKey(url) ==
    IF /\ \E d \in {"office.com", "office365.com"} : Includes(url.hostname, d)
       /\ MatchLowerPair(url.pathname) # 0
    THEN <<"office", url.pathname[MatchLowerPair(url.pathname)],
           LowerAlnumPrefix(url.pathname[MatchLowerPair(url.pathname) + 1])>>
    ELSE <<>>

EditorKey(url) ==
    FirstKey(<< RuleKey(url, "gdoc", {"docs.google.com"}, <<"document", "d">>),
                RuleKey(url, "gsheet", {"docs.google.com"},
                        <<"spreadsheets", "d">>),
                OfficeKey(url) >>)

ChatKey(url) ==
    FirstKey(<< RuleKey(url, "claude", {"claude.ai"}, <<"chat">>),
                RuleKey(url, "chatgpt", {"chat.openai.com", "chatgpt.com"},
                        <<"c">>) >>)

\* C11: the resolver applies its rules in priority order, first match
\* wins. For every URL that parses: a document-editor host with a matching
\* document-id path yields <providerTag, id>; otherwise an AI-chat host with
\* a matching conversation-id path yields <providerTag, conversationId>;
\* every other URL yields <"domain", hostname>. docs.google.com/document/d/
\* XYZ123/edit gives gdoc_XYZ123 and https://example.com/page gives
\* domain_example.com.
C11_ResolverPriority ==
    (query.fn = "generateDocKey" /\ answer.done /\ query.tab.url # Malformed) =>
        LET url == query.tab.url
        IN  /\ answer.value =
                    IF EditorKey(url) # <<>> THEN EditorKey(url)
                    ELSE IF ChatKey(url) # <<>> THEN ChatKey(url)
                    ELSE <<"domain", url.hostname>>
            /\ url = Url("https", "docs.google.com",
                         <<"document", "d", "XYZ123", "edit">>) =>
                    answer.value = <<"gdoc", "XYZ123">>
            /\ url = Url("https", "example.com", <<"page">>) =>
                    answer.value = <<"domain", "example.com">>

\* a URL to which a document-editor rule and an AI-chat rule both apply has
\* been resolved by the editor rule
C11_Witness ==
    /\ query.fn = "generateDocKey"
    /\ answer.done
    /\ query.tab.url = Url("https", "docs.google.com.claude.ai",
                           <<"chat", "conv1", "document", "d", "abc">>)
    /\ answer.value = <<"gdoc", "abc">>

\* this step is a tick: trackActiveTab runs up to its await or its return
TickStep ==
    /\ op["tick"].pc = "run"
    /\ op'["tick"].pc # "run"

\* C12: the resolver is total, so a tick on a tab with a malformed URL
\* still yields a docKey and can record a session: every tick that brings
\* the accumulator of a tab with a title and no browser-internal URL to the
\* threshold calls IndexedDBManager.recordSession with a docKey.
C12_MalformedUrlRecorded ==
    [][ ( /\ TickStep
          /\ activeTab \in Trackable
          /\ tabAccumulatedTime'[activeTab] >= MIN_RECORD_SECONDS ) =>
            /\ op'["tick"].kind = "recordSession"
            /\ op'["tick"].docKey # NoKey
      ]_vars

\* C13: the retention sweep never deletes data younger than the horizon:
\* every SessionRecord that a step removes is removed by the commit of a
\* deleteOldSessions, on a day on which its date is not later than the
\* current date minus 60 days.
C13_SweepKeepsYoungerThanHorizon ==
    [][ \A s \in sessions \ sessions' :
            /\ \E c \in Callers : Completes(c, "deleteOldSessions")
            /\ DayOf(s.date) <= clock - DATA_RETENTION_DAYS
      ]_vars

\* a SessionRecord that the retention sweep is due to delete
Expired(s) == DayOf(s.date) <= clock - DATA_RETENTION_DAYS

\* C14: old data is eventually purged: whenever the store holds a
\* SessionRecord dated at or before the horizon, a state follows in which
\* it holds none.
C14_OldSessionsEventuallyPurged ==
    (\E s \in sessions : Expired(s)) ~> (\A s \in sessions : ~Expired(s))

\* C15: no SessionRecord, in the store or in a transaction's view of it,
\* has durationMs <= 0.
C15_DurationPositive ==
    \A s \in sessions \cup txSessions : s.durationMs > 0

C15_Witness ==
    /\ Cardinality(sessions) = 2
    /\ txSessions = sessions
    /\ op["tick"].kind = "recordSession"
    /\ op["tick"].promise = "resolved"

RECURSIVE SumValues(_)
SumValues(f) ==
    IF DOMAIN f = {} THEN 0
    ELSE LET k == CHOOSE x \in DOMAIN f : TRUE
         IN  f[k] + SumValues([x \in DOMAIN f \ {k} |-> f[x]])

\* the bucket of a date: the day itself, its year and month, or what
\* getWeekKey makes of it
BucketOf(date, period, zone) ==
    IF period = "day" THEN date
    ELSE IF period = "month" THEN <<date[1], date[2]>>
    ELSE getWeekKey(date, zone)

\* C16: getTimeBreakdown(K, granularity) has one bucket for each bucket
\* that a SessionRecord of K maps to, each holding the sum of durationMs of
\* the SessionRecords of K that map to it; the sessions of other docKeys
\* contribute nothing; the buckets add up to the sum over all of K's
\* sessions; durations 1000, 2000, 3000 on 2024-01-01 give
\* {"2024-01-01": 6000} for day.
C16_BreakdownSumsPerBucket ==
    (query.fn = "getTimeBreakdown" /\ answer.done) =>
        LET mine == { s \in sessions : s.docKey = query.docKey }
            bucket(s) == BucketOf(s.date, query.period, query.zone)
        IN  /\ DOMAIN answer.value = { bucket(s) : s \in mine }
            /\ \A b \in DOMAIN answer.value :
                    answer.value[b] =
                        SumDurations({ s \in mine : bucket(s) = b })
            /\ SumValues(answer.value) = SumDurations(mine)
            /\ ( /\ query.period = "day"
                 /\ { <<s.date, s.durationMs>> : s \in mine } =
                        { <<(<<2024, 1, 1>>), 1000>>, <<(<<2024, 1, 1>>), 2000>>,
                          <<(<<2024, 1, 1>>), 3000>> }
                 /\ Cardinality(mine) = 3 ) =>
                    answer.value = (<<2024, 1, 1>> :> 6000)

\* a week breakdown has put two sessions of K, of different days, into
\* one bucket and left out a session of another docKey
C16_Witness ==
    /\ query.fn = "getTimeBreakdown"
    /\ answer.done
    /\ query.period = "week"
    /\ Cardinality({ s \in sessions : s.docKey = query.docKey }) = 2
    /\ Cardinality({ s.date : s \in sessions }) = 3
    /\ \E s \in sessions : s.docKey # query.docKey
    /\ \E b \in DOMAIN answer.value : answer.value[b] = 5000

\* the day of the week of a day number, Sunday 0 (2023-12-01 is a Friday)
Weekday(n) == (n + 5) % 7

\* C17: the week bucket key of a session date is the date of the Sunday
\* that starts its calendar week: the date minus its weekday index.
C17_WeekKeyIsSunday ==
    (query.fn = "getWeekKey" /\ answer.done) =>
        LET day == DayOf(query.dateString)
        IN  answer.value = ISODate(day - Weekday(day))

\* the largest of two numbers
Max(a, b) == IF a >= b THEN a ELSE b

\* C18: a tick whose active tab has a trackable URL adds exactly 1 to that
\* tab's accumulator and to no other, and issues a recordSession call if
\* and only if the accumulator is then >= MIN_RECORD_SECONDS; so a tab
\* whose accumulator has reached n since it was reset has had
\* max(0, n - 9) calls issued; and every such call that commits adds one
\* SessionRecord, of durationMs 1000 and of the tab's docKey.
C18_TickAccumulatesAndRecords ==
    [][ /\ ( /\ TickStep
             /\ activeTab # NoTab
             /\ TabTitle(activeTab) # ""
             /\ TabUrl(activeTab).scheme = "https" ) =>
                /\ tabAccumulatedTime' =
                        [tabAccumulatedTime EXCEPT ![activeTab] = @ + 1]
                /\ op'["tick"].kind = "recordSession" <=>
                        /\ tabAccumulatedTime'[activeTab] >= MIN_RECORD_SECONDS
                        /\ TabUrl(activeTab) # Malformed
                /\ issued'[activeTab] = issued[activeTab] + 1 <=>
                        tabAccumulatedTime'[activeTab] >= MIN_RECORD_SECONDS
        /\ \A t \in Tabs :
                issued'[t] =
                    Max(0, tabAccumulatedTime'[t] - (MIN_RECORD_SECONDS - 1))
        /\ Completes("tick", "recordSession") =>
                \E s \in sessions' :
                    /\ sessions' = sessions \cup {s}
                    /\ s \notin sessions
                    /\ s.durationMs = 1000
                    /\ s.docKey = generateDocKey(TabOf(op["tick"].tab))
      ]_vars

\* eleven ticks on the document's tab since its accumulator was reset: two
\* calls were issued and both rows are in the store
C18_Witness ==
    /\ tabAccumulatedTime[1] = 11
    /\ issued[1] = 2
    /\ Cardinality(sessions) = 2
    /\ \A s \in sessions : s.docKey = generateDocKey(TabOf(1))
    /\ op["tick"].promise = "resolved"

\* C19: both a tab-activated event and a tab-removed event reset every
\* tab's accumulator: a step that takes a tab's counter away leaves no
\* non-zero counter for any tab.
C19_ResetClearsEveryAccumulator ==
    [][ (\E t \in Tabs : tabAccumulatedTime'[t] < tabAccumulatedTime[t]) =>
            \A t \in Tabs : tabAccumulatedTime'[t] = 0
      ]_vars

\* C20: a tick whose active tab has a browser-internal URL, or no title, or
\* when there is no active tab, changes no accumulator and records no
\* session: it re-arms the timer and nothing else.
C20_UntrackableTickOnlyRearms ==
    [][ ( /\ TickStep
          /\ \/ activeTab = NoTab
             \/ TabTitle(activeTab) = ""
             \/ TabUrl(activeTab).scheme \in
                    {"chrome", "about", "edge", "chrome-extension",
                     "moz-extension"} ) =>
            /\ tabAccumulatedTime' = tabAccumulatedTime
            /\ issued' = issued
            /\ op'["tick"] = IdleOp
            /\ trackAlarm'
            /\ UNCHANGED <<storeVars, txVars>>
      ]_vars

\* a tick is running with a browser-internal page active while the
\* document's tab holds accumulated seconds
C20_Witness ==
    /\ op["tick"].pc = "run"
    /\ activeTab = 3
    /\ tabAccumulatedTime[1] >= MIN_RECORD_SECONDS
    /\ tabAccumulatedTime[2] > 0

\* C30: the popup's key resolver agrees with the background tracker's: for
\* every tab URL the popup looks statistics up under the docKey that
\* the background generateDocKey gives the tab.
C30_PopupKeyAgrees ==
    (query.fn = "updatePopup" /\ answer.done) =>
        answer.value = generateDocKey(query.tab)

\* C27: under any interleaving of recordSession, retention sweeps and
\* deleteDocument, every DocumentRecord has totalTimeMs >= the sum of
\* durationMs of the SessionRecords that still carry its docKey.
C27_TotalAtLeastRemaining ==
    \A k \in DOMAIN documents :
        documents[k].totalTimeMs >= SumDurations(SessionsOf(sessions, k))

\* a sweep has removed one of a document's two rows: the total is larger
\* than what the remaining row shows
C27_Witness ==
    /\ lastSweep.ran
    /\ \E k \in DOMAIN documents :
            /\ documents[k].totalTimeMs = 2 * TickDurationMs
            /\ SumDurations(SessionsOf(sessions, k)) = TickDurationMs

\* C29: referential integrity of the ledger: in every reachable state every
\* SessionRecord's docKey has a DocumentRecord.
C29_NoOrphanSessions ==
    \A s \in sessions : s.docKey \in DOMAIN documents

\* deleteDocument has committed for one of two recorded documents: its row
\* went with it and the other document's row has its record
C29_Witness ==
    /\ op["dash"].kind = "deleteDocument"
    /\ op["dash"].promise = "resolved"
    /\ Cardinality(sessions) = 1
    /\ Cardinality(DOMAIN documents) = 1
    /\ nextId = 3

\* C25: firstSeen of a DocumentRecord is set when the record is created and
\* no later step changes it while the record exists; every recordSession
\* that commits for the docKey leaves the title it was passed and a
\* lastSeen taken during the call.
C25_FirstSeenKeptLastSeenTitleUpdated ==
    [][ /\ \A k \in DOMAIN documents \cap DOMAIN documents' :
                documents'[k].firstSeen = documents[k].firstSeen
        /\ \A c \in Callers : Completes(c, "recordSession") =>
                LET k == op[c].docKey
                    during == DayOf(op[c].date) .. clock
                IN  /\ k \in DOMAIN documents'
                    /\ k \notin DOMAIN documents =>
                            documents'[k].firstSeen \in during
                    /\ documents'[k].lastSeen \in during
                    /\ documents'[k].title = TabTitle(op[c].tab)
      ]_vars

\* a record created on one day through one page has been updated on a
\* later day through the other page
C25_Witness ==
    /\ op["tick"].kind = "recordSession"
    /\ op["tick"].promise = "resolved"
    /\ \E k \in DOMAIN documents :
            /\ documents[k].firstSeen = StartDay
            /\ documents[k].lastSeen > StartDay
            /\ documents[k].title = TabTitle(6)
            /\ documents[k].totalTimeMs = 2 * TickDurationMs

\* C26: the url of a DocumentRecord is the last observed URL: after a
\* recordSession for K commits, the DocumentRecord of K holds the url
\* passed in that call, also when the record already existed.
C26_UrlIsLastObserved ==
    [][ \A c \in Callers : Completes(c, "recordSession") =>
            /\ op[c].docKey \in DOMAIN documents'
            /\ documents'[op[c].docKey].url = TabUrl(op[c].tab)
      ]_vars

\* C23: two recordSession calls for the same docKey that overlap in time
\* lose no update: the commit of either, with the other in flight or
\* completed, adds its duration to totalTimeMs as the store holds it then
\* and adds exactly one SessionRecord of the docKey.
C23_OverlapLosesNoUpdate ==
    [][ \A c \in Tickers :
            ( /\ Completes(c, "recordSession")
              /\ \E o \in Tickers \ {c} :
                    /\ op[o].kind = "recordSession"
                    /\ \/ op[o].pc = "done"
                       \/ op[o].pc = "opening" /\ op[o].docKey = op[c].docKey ) =>
                LET k == op[c].docKey
                IN  /\ TotalOfKey(documents', k) =
                            TotalOfKey(documents, k) + TickDurationMs
                    /\ Cardinality(SessionsOf(sessions', k)) =
                            Cardinality(SessionsOf(sessions, k)) + 1
                    /\ \A s \in sessions' \ sessions :
                            s.docKey = k /\ s.durationMs = TickDurationMs
      ]_vars

\* two overlapping calls for one docKey have both resolved: the total has
\* grown by both durations and there are two rows
C23_Witness ==
    /\ op["tick"].kind = "recordSession" /\ op["tick"].promise = "resolved"
    /\ op["tick2"].kind = "recordSession" /\ op["tick2"].promise = "resolved"
    /\ \E k \in DOMAIN documents :
            /\ documents[k].totalTimeMs = 2 * TickDurationMs
            /\ Cardinality(SessionsOf(sessions, k)) = 2

\* a recordSession call of the tick is in flight
InFlight ==
    /\ op["tick"].kind = "recordSession"
    /\ op["tick"].pc \notin {"idle", "done"}

\* C24: a tab-switch reset that arrives while a tick's recordSession call
\* is in flight changes only the in-memory accumulators: the call, its
\* transaction and the store are as they were; and the call, when it
\* commits after the reset, writes exactly one SessionRecord, of its docKey
\* and of durationMs 1000.
C24_ResetLeavesCallInFlight ==
    [][ /\ ( /\ InFlight
             /\ tabAccumulatedTime' # tabAccumulatedTime
             /\ \A t \in Tabs : tabAccumulatedTime'[t] = 0 ) =>
                UNCHANGED <<storeVars, txVars, op, trackAlarm, clock>>
        /\ ( /\ Completes("tick", "recordSession")
             /\ tabAccumulatedTime[op["tick"].tab] = 0 ) =>
                \E s \in sessions' :
                    /\ s \notin sessions
                    /\ sessions' = sessions \cup {s}
                    /\ s.docKey = op["tick"].docKey
                    /\ s.durationMs = TickDurationMs
                    /\ TotalOfKey(documents', s.docKey) =
                            TotalOfKey(documents, s.docKey) + TickDurationMs
      ]_vars

\* the call of the tenth tick has resolved after a switch to another tab
\* cleared the accumulators: its row is the only one
C24_Witness ==
    /\ op["tick"].kind = "recordSession"
    /\ op["tick"].promise = "resolved"
    /\ activeTab = 2
    /\ \A t \in Tabs : tabAccumulatedTime[t] = 0
    /\ Cardinality(sessions) = 1
    /\ \A s \in sessions : s.docKey = generateDocKey(TabOf(1))

\* C21: every tick re-arms the tracking timer when it finishes, on every
\* path, so a next tick is always pending or running and ticks occur
\* infinitely often: whenever a tick is awaiting its recordSession call, a
\* state follows in which the tracking alarm is armed again.
C21_TickAlwaysRearms ==
    InFlight ~> trackAlarm

\* C22: no store operation blocks a tick for ever: every recordSession call
\* issued by a tick eventually resolves or rejects, also when the
\* transaction aborts or the database cannot be opened.
C22_RecordSessionSettles ==
    (op["tick"].kind = "recordSession" /\ op["tick"].promise = "pending")
        ~> (op["tick"].promise \in {"resolved", "rejected"})

\* C28: a session is recorded for a document only after that same tab has
\* been the active, trackable target on at least MIN_RECORD_SECONDS
\* consecutive ticks: accumulated seconds never carry over across a tick
\* that did not count the tab (after a change of active tab, a switch
\* between browser windows included), so no tick issues recordSession for a
\* tab whose accumulator holds seconds from before such a tick.
C28_RecordOnlyAfterConsecutiveTicks ==
    [][ (TickStep /\ op'["tick"].kind = "recordSession") =>
            op'["tick"].tab \notin carried'
      ]_vars

====
